---- MODULE Spec2Model ----
(***************************************************************************)
(* big-json-handler (src/src/bjh.ts): the token scanner bjRead, the        *)
(* depth-discard helper bjDiscardUntil, the array / object iterator steps  *)
(* built on them, bjLocation and the accessors, over one shared BjReader.  *)
(*                                                                         *)
(* Text is a sequence of one-character strings.  Offsets are 0-based as in *)
(* the source: the character at offset i of data is data[i + 1].           *)
(***************************************************************************)
EXTENDS Integers, Sequences, FiniteSets, TLC

(***************************************************************************)
(* Bounds of the model.                                                    *)
(***************************************************************************)
\* longest free-form input, counted in lexemes
MaxTok == 3
\* largest depth field of a container value handed to a bare iterator step
MaxArgDepth == 1
\* most values (scalars and containers) in a well-formed document
MaxNodes == 4

(***************************************************************************)
(* enum BjType                                                             *)
(***************************************************************************)
ERROR == 0
END == 1
ARRAY == 2
OBJECT == 3
NUMBER == 4
\* BjType.STRING (STRING is a TLA+ built-in)
BjSTRING == 5
BOOL == 6
NULL == 7

\* r.error === null
NoError == "<null>"

ErrEof == "unexpected eof"
ErrUnclosedString == "unclosed string"
ErrStrayBrace == "stray '}'"
ErrStrayBracket == "stray ']'"
ErrUnknownToken == "unknown token"
ErrObjectEnd == "unexpected object end"

\* interface BjValue
BjValue(t, s, e, d) == [type |-> t, start |-> s, end |-> e, depth |-> d]

\* an absent (undefined) value or key of an iterator result
NoValue == [type |-> -1, start |-> 0, end |-> 0, depth |-> 0]

\* bjReader(data)
bjReader(text) ==
  [data |-> text, cur |-> 0, end |-> Len(text), depth |-> 0, error |-> NoError]

\* data[i]
CharAt(text, i) == text[i + 1]

\* data.substring(s, e), for 0 <= s <= e <= data.length
Substring(text, s, e) == SubSeq(text, s + 1, e)

Digits == {"0", "1", "2", "3", "4", "5", "6", "7", "8", "9"}

\* isNumberCont(c) taking digits only
isNumberCont_digits(c) == c \in Digits

\* isNumberCont(c) without the signs
isNumberCont_noSign(c) == c \in Digits \cup {"e", "E", "."}

\* isNumberCont(c)
isNumberCont(c) == c \in Digits \cup {"e", "E", ".", "-", "+"}

\* isString(data, cur, end, expect) without the comparison of the last character
isString_lastFree(text, cur, end, expect) ==
  \A i \in 0 .. Len(expect) - 1 :
    /\ cur + i < end
    /\ i < Len(expect) - 1 => CharAt(text, cur + i) = CharAt(expect, i)

\* isString(data, cur, end, expect)
isString(text, cur, end, expect) ==
  \A i \in 0 .. Len(expect) - 1 :
    /\ cur + i < end
    /\ CharAt(text, cur + i) = CharAt(expect, i)

LitNull == <<"n", "u", "l", "l">>
LitTrue == <<"t", "r", "u", "e">>
LitFalse == <<"f", "a", "l", "s", "e">>

\* the pair bjRead leaves behind: the mutated reader and the returned value
Out(rd, v) == [r |-> rd, val |-> v]

\* the scan loop without its sticky-error test
HasError_never(rd) == FALSE

\* if (r.error): the sticky-error test at the head of the scan loop
HasError(rd) == rd.error # NoError

\* the sticky Error value with the one-character span of the stray-close case
StickyError_spanned(rd) == Out(rd, BjValue(ERROR, rd.cur, rd.cur + 1, rd.depth))

\* the Error value returned for a reader whose error is already set
StickyError(rd) == Out(rd, BjValue(ERROR, rd.cur, rd.cur, rd.depth))

\* the end-of-input case with the message of the default case
ReadEof_unknown(rd) ==
  Out([rd EXCEPT !.error = ErrUnknownToken], BjValue(ERROR, rd.cur, rd.cur, rd.depth))

\* if (r.cur >= r.end): no input left where a token is needed
ReadEof(rd) ==
  Out([rd EXCEPT !.error = ErrEof], BjValue(ERROR, rd.cur, rd.cur, rd.depth))

\* the skipped characters without the colon
Skipped_noColon == {" ", "\n", "\r", "\t", ","}

\* the skipped characters without the comma
Skipped_noComma == {" ", "\n", "\r", "\t", ":"}

\* the characters the scan loop steps over without emitting a token
Skipped == {" ", "\n", "\r", "\t", ":", ","}

\* while (r.cur < r.end && isNumberCont(r.data[r.cur])) r.cur++
RECURSIVE NumberEnd(_, _, _)
NumberEnd(text, cur, end) ==
  IF cur < end /\ isNumberCont(CharAt(text, cur))
    THEN NumberEnd(text, cur + 1, end)
    ELSE cur

\* case '-', '0' .. '9'
ReadNumber(rd) ==
  LET stop == NumberEnd(rd.data, rd.cur, rd.end)
  IN  Out([rd EXCEPT !.cur = stop], BjValue(NUMBER, rd.cur, stop, rd.depth))

\* the string loop without the backslash test
RECURSIVE StringStop_noEscape(_, _, _)
StringStop_noEscape(text, cur, end) ==
  IF cur >= end THEN cur
  ELSE IF CharAt(text, cur) = "\"" THEN cur
  ELSE StringStop_noEscape(text, cur + 1, end)

\* the string loop with the second r.cur++ made without its bounds test
RECURSIVE StringStop_overrun(_, _, _)
StringStop_overrun(text, cur, end) ==
  IF cur >= end THEN cur
  ELSE IF CharAt(text, cur) = "\"" THEN cur
  ELSE LET c1 == IF CharAt(text, cur) = "\\" THEN cur + 1 ELSE cur
       IN  StringStop_overrun(text, c1 + 1, end)

\* the string loop with a backslash stepping over a quote only
RECURSIVE StringStop_escapedQuote(_, _, _)
StringStop_escapedQuote(text, cur, end) ==
  IF cur >= end THEN cur
  ELSE IF CharAt(text, cur) = "\"" THEN cur
  ELSE LET c1 == IF /\ CharAt(text, cur) = "\\"
                    /\ cur + 1 < end
                    /\ CharAt(text, cur + 1) = "\""
                   THEN cur + 1 ELSE cur
           c2 == IF c1 < end THEN c1 + 1 ELSE c1
       IN  StringStop_escapedQuote(text, c2, end)

\* the loop inside case '"': where it stops, at the closing quote or at/after
\* the end of input
RECURSIVE StringStop(_, _, _)
StringStop(text, cur, end) ==
  IF cur >= end THEN cur
  ELSE IF CharAt(text, cur) = "\"" THEN cur
  ELSE LET c1 == IF CharAt(text, cur) = "\\" THEN cur + 1 ELSE cur
           c2 == IF c1 < end THEN c1 + 1 ELSE c1
       IN  StringStop(text, c2, end)

\* case '"'
ReadString(rd) ==
  LET start == rd.cur + 1
      stop == StringStop(rd.data, start, rd.end)
  IN  IF stop >= rd.end
        THEN Out([rd EXCEPT !.cur = stop, !.error = ErrUnclosedString],
                 BjValue(ERROR, start - 1, stop, rd.depth))
        ELSE Out([rd EXCEPT !.cur = stop + 1],
                 BjValue(BjSTRING, start, stop, rd.depth))

\* case '{', '[' with res.depth left as it was set before the switch
ReadOpen_depthBefore(rd, c) ==
  Out([rd EXCEPT !.depth = @ + 1, !.cur = @ + 1],
      BjValue(IF c = "{" THEN OBJECT ELSE ARRAY, rd.cur, rd.cur + 1, rd.depth))

\* case '{', '['
ReadOpen(rd, c) ==
  Out([rd EXCEPT !.depth = @ + 1, !.cur = @ + 1],
      BjValue(IF c = "{" THEN OBJECT ELSE ARRAY, rd.cur, rd.cur + 1, rd.depth + 1))

\* case '}', ']' without the r.cur++ of a matched close
ReadClose_stay(rd, c) ==
  LET d == rd.depth - 1
  IN  IF d < 0
        THEN Out([rd EXCEPT !.depth = d,
                            !.error = IF c = "}" THEN ErrStrayBrace ELSE ErrStrayBracket],
                 BjValue(ERROR, rd.cur, rd.cur + 1, d + 1))
        ELSE Out([rd EXCEPT !.depth = d],
                 BjValue(END, rd.cur, rd.cur + 1, rd.depth))

\* case '}', ']' taking for stray a close with no opening bracket of its kind
\* before it
ReadClose_sameKind(rd, c) ==
  LET d == rd.depth - 1
      open == IF c = "}" THEN "{" ELSE "["
  IN  IF d < 0 \/ ~ \E i \in 0 .. rd.cur - 1 : CharAt(rd.data, i) = open
        THEN Out([rd EXCEPT !.depth = d,
                            !.error = IF c = "}" THEN ErrStrayBrace ELSE ErrStrayBracket],
                 BjValue(ERROR, rd.cur, rd.cur + 1, d + 1))
        ELSE Out([rd EXCEPT !.depth = d, !.cur = @ + 1],
                 BjValue(END, rd.cur, rd.cur + 1, rd.depth))

\* case '}', ']' with res.depth taken after the decrement
ReadClose_depthAfter(rd, c) ==
  LET d == rd.depth - 1
  IN  IF d < 0
        THEN Out([rd EXCEPT !.depth = d,
                            !.error = IF c = "}" THEN ErrStrayBrace ELSE ErrStrayBracket],
                 BjValue(ERROR, rd.cur, rd.cur + 1, d + 1))
        ELSE Out([rd EXCEPT !.depth = d, !.cur = @ + 1],
                 BjValue(END, rd.cur, rd.cur + 1, d))

\* case '}', ']' with the depth of a matched close left as it was
ReadClose_keepDepth(rd, c) ==
  LET d == rd.depth - 1
  IN  IF d < 0
        THEN Out([rd EXCEPT !.depth = d,
                            !.error = IF c = "}" THEN ErrStrayBrace ELSE ErrStrayBracket],
                 BjValue(ERROR, rd.cur, rd.cur + 1, d + 1))
        ELSE Out([rd EXCEPT !.cur = @ + 1],
                 BjValue(END, rd.cur, rd.cur + 1, rd.depth))

\* case '}', ']' with r.cur++ made before the depth test
ReadClose_advance(rd, c) ==
  LET d == rd.depth - 1
  IN  IF d < 0
        THEN Out([rd EXCEPT !.depth = d, !.cur = @ + 1,
                            !.error = IF c = "}" THEN ErrStrayBrace ELSE ErrStrayBracket],
                 BjValue(ERROR, rd.cur, rd.cur + 1, d + 1))
        ELSE Out([rd EXCEPT !.depth = d, !.cur = @ + 1],
                 BjValue(END, rd.cur, rd.cur + 1, rd.depth))

\* case '}', ']'
ReadClose(rd, c) ==
  LET d == rd.depth - 1
  IN  IF d < 0
        THEN Out([rd EXCEPT !.depth = d,
                            !.error = IF c = "}" THEN ErrStrayBrace ELSE ErrStrayBracket],
                 BjValue(ERROR, rd.cur, rd.cur + 1, d + 1))
        ELSE Out([rd EXCEPT !.depth = d, !.cur = @ + 1],
                 BjValue(END, rd.cur, rd.cur + 1, rd.depth))

\* default: with the offending character stepped over
ReadUnknown_advance(rd) ==
  Out([rd EXCEPT !.error = ErrUnknownToken, !.cur = @ + 1],
      BjValue(ERROR, rd.cur, rd.cur, rd.depth))

\* default: (also reached by the fallthrough of case 'n', 't', 'f')
ReadUnknown(rd) ==
  Out([rd EXCEPT !.error = ErrUnknownToken], BjValue(ERROR, rd.cur, rd.cur, rd.depth))

\* case 'n', 't', 'f'
ReadLiteral(rd, c) ==
  LET t == IF c = "n" THEN NULL ELSE BOOL
  IN  IF isString(rd.data, rd.cur, rd.end, LitNull)
        THEN Out([rd EXCEPT !.cur = @ + 4], BjValue(t, rd.cur, rd.cur + 4, rd.depth))
      ELSE IF isString(rd.data, rd.cur, rd.end, LitTrue)
        THEN Out([rd EXCEPT !.cur = @ + 4], BjValue(t, rd.cur, rd.cur + 4, rd.depth))
      ELSE IF isString(rd.data, rd.cur, rd.end, LitFalse)
        THEN Out([rd EXCEPT !.cur = @ + 5], BjValue(t, rd.cur, rd.cur + 5, rd.depth))
      ELSE ReadUnknown(rd)

\* bjRead(r): the scan loop
RECURSIVE bjRead(_)
bjRead(rd) ==
  IF HasError(rd) THEN StickyError(rd)
  ELSE IF rd.cur >= rd.end THEN ReadEof(rd)
  ELSE LET c == CharAt(rd.data, rd.cur)
       IN  IF c \in Skipped THEN bjRead([rd EXCEPT !.cur = @ + 1])
           ELSE IF c \in Digits \cup {"-"} THEN ReadNumber(rd)
           ELSE IF c = "\"" THEN ReadString(rd)
           ELSE IF c \in {"{", "["} THEN ReadOpen(rd, c)
           ELSE IF c \in {"}", "]"} THEN ReadClose(rd, c)
           ELSE IF c \in {"n", "t", "f"} THEN ReadLiteral(rd, c)
           ELSE ReadUnknown(rd)


\* the loop of bjDiscardUntil making one scan at most
DiscardLoop_once(rd, depth, val) ==
  IF rd.depth # depth /\ val.type # ERROR THEN bjRead(rd).r ELSE rd

\* bjDiscardUntil(r, depth): the loop, val being the last value read
RECURSIVE DiscardLoop(_, _, _)
DiscardLoop(rd, depth, val) ==
  IF rd.depth # depth /\ val.type # ERROR
    THEN LET o == bjRead(rd) IN DiscardLoop(o.r, depth, o.val)
    ELSE rd

\* bjDiscardUntil(r, depth) discarding nothing
bjDiscardUntil_none(rd, depth) == rd

\* bjDiscardUntil(r, depth)
bjDiscardUntil(rd, depth) == DiscardLoop(rd, depth, BjValue(NULL, 0, 0, 0))

\* the result of an iterator step, with the reader it leaves behind, the
\* tokens its slots scanned (the locals val, or key and val) and r.error as
\* the last of these scans left it
IterOut(rd, dn, k, v, toks, serr) ==
  [r |-> rd, done |-> dn, key |-> k, value |-> v, scanned |-> toks,
   scanError |-> serr]

\* bjIterArray(r, arr) without the call of bjDiscardUntil
bjIterArray_noDiscard(rd, arr) ==
  LET o == bjRead(rd)
  IN  IF o.val.type = ERROR \/ o.val.type = END
        THEN IterOut(o.r, TRUE, NoValue, NoValue, <<o.val>>, o.r.error)
        ELSE IterOut(o.r, FALSE, NoValue, o.val, <<o.val>>, o.r.error)

\* bjIterArray(r, arr) with done reported for END only
bjIterArray_yieldError(rd, arr) ==
  LET o == bjRead(bjDiscardUntil(rd, arr.depth))
  IN  IF o.val.type = END
        THEN IterOut(o.r, TRUE, NoValue, NoValue, <<o.val>>, o.r.error)
        ELSE IterOut(o.r, FALSE, NoValue, o.val, <<o.val>>, o.r.error)

\* bjIterArray(r, arr) scanning on from the end of the span of arr
bjIterArray_fromStart(rd, arr) ==
  LET o == bjRead(bjDiscardUntil([rd EXCEPT !.cur = arr.end], arr.depth))
  IN  IF o.val.type = ERROR \/ o.val.type = END
        THEN IterOut(o.r, TRUE, NoValue, NoValue, <<o.val>>, o.r.error)
        ELSE IterOut(o.r, FALSE, NoValue, o.val, <<o.val>>, o.r.error)

\* bjIterArray(r, arr)
bjIterArray(rd, arr) ==
  LET o == bjRead(bjDiscardUntil(rd, arr.depth))
  IN  IF o.val.type = ERROR \/ o.val.type = END
        THEN IterOut(o.r, TRUE, NoValue, NoValue, <<o.val>>, o.r.error)
        ELSE IterOut(o.r, FALSE, NoValue, o.val, <<o.val>>, o.r.error)

\* bjIterObject(r, obj) with the END test of the value slot also taking ERROR
bjIterObject_overwrite(rd, obj) ==
  LET k == bjRead(bjDiscardUntil(rd, obj.depth))
  IN  IF k.val.type = ERROR \/ k.val.type = END
        THEN IterOut(k.r, TRUE, NoValue, NoValue, <<k.val>>, k.r.error)
        ELSE LET v == bjRead(k.r)
             IN  IF v.val.type = END \/ v.val.type = ERROR
                   THEN IterOut([v.r EXCEPT !.error = ErrObjectEnd], TRUE,
                                NoValue, NoValue, <<k.val, v.val>>, v.r.error)
                 ELSE IterOut(v.r, FALSE, k.val, v.val, <<k.val, v.val>>, v.r.error)

\* bjIterObject(r, obj) without the END test of the value slot
bjIterObject_noEndTest(rd, obj) ==
  LET k == bjRead(bjDiscardUntil(rd, obj.depth))
  IN  IF k.val.type = ERROR \/ k.val.type = END
        THEN IterOut(k.r, TRUE, NoValue, NoValue, <<k.val>>, k.r.error)
        ELSE LET v == bjRead(k.r)
             IN  IF v.val.type = ERROR
                   THEN IterOut(v.r, TRUE, NoValue, NoValue, <<k.val, v.val>>, v.r.error)
                 ELSE IterOut(v.r, FALSE, k.val, v.val, <<k.val, v.val>>, v.r.error)

\* bjIterObject(r, obj) taking a key that is not a string for the end
bjIterObject_stringKeys(rd, obj) ==
  LET k == bjRead(bjDiscardUntil(rd, obj.depth))
  IN  IF k.val.type # BjSTRING
        THEN IterOut(k.r, TRUE, NoValue, NoValue, <<k.val>>, k.r.error)
        ELSE LET v == bjRead(k.r)
             IN  IF v.val.type = END
                   THEN IterOut([v.r EXCEPT !.error = ErrObjectEnd], TRUE,
                                NoValue, NoValue, <<k.val, v.val>>, v.r.error)
                 ELSE IF v.val.type = ERROR
                   THEN IterOut(v.r, TRUE, NoValue, NoValue, <<k.val, v.val>>, v.r.error)
                 ELSE IterOut(v.r, FALSE, k.val, v.val, <<k.val, v.val>>, v.r.error)

\* bjIterObject(r, obj)
bjIterObject(rd, obj) ==
  LET k == bjRead(bjDiscardUntil(rd, obj.depth))
  IN  IF k.val.type = ERROR \/ k.val.type = END
        THEN IterOut(k.r, TRUE, NoValue, NoValue, <<k.val>>, k.r.error)
        ELSE LET v == bjRead(k.r)
             IN  IF v.val.type = END
                   THEN IterOut([v.r EXCEPT !.error = ErrObjectEnd], TRUE,
                                NoValue, NoValue, <<k.val, v.val>>, v.r.error)
                 ELSE IF v.val.type = ERROR
                   THEN IterOut(v.r, TRUE, NoValue, NoValue, <<k.val, v.val>>, v.r.error)
                 ELSE IterOut(v.r, FALSE, k.val, v.val, <<k.val, v.val>>, v.r.error)

(***************************************************************************)
(* bjLocation and the accessors.  A call either returns a result or throws *)
(* an Error with a message.                                                *)
(***************************************************************************)
Returned(x) == [threw |-> FALSE, result |-> x]

Thrown(msg) == [threw |-> TRUE, result |-> msg]

\* the loop of bjLocation without the reset of col at a newline
RECURSIVE LocationLoop_noReset(_, _, _, _)
LocationLoop_noReset(rd, i, line, col) ==
  IF i < rd.cur
    THEN IF CharAt(rd.data, i) = "\n"
           THEN LocationLoop_noReset(rd, i + 1, line + 1, col + 1)
           ELSE LocationLoop_noReset(rd, i + 1, line, col + 1)
    ELSE [line |-> line, col |-> col]

\* for (let i = 0; i < r.cur; i++) of bjLocation
RECURSIVE LocationLoop(_, _, _, _)
LocationLoop(rd, i, line, col) ==
  IF i < rd.cur
    THEN IF CharAt(rd.data, i) = "\n"
           THEN LocationLoop(rd, i + 1, line + 1, 1)
           ELSE LocationLoop(rd, i + 1, line, col + 1)
    ELSE [line |-> line, col |-> col]

\* bjLocation(r) counting columns over newlines
bjLocation_noReset(rd) == LocationLoop_noReset(rd, 0, 1, 1)

\* bjLocation(r)
bjLocation(rd) == LocationLoop(rd, 0, 1, 1)

\* text with each backslash dropped and the character after it kept
RECURSIVE Unescaped(_)
Unescaped(text) ==
  IF text = <<>> THEN <<>>
  ELSE IF Head(text) = "\\"
    THEN IF Len(text) = 1 THEN <<>>
         ELSE <<text[2]>> \o Unescaped(SubSeq(text, 3, Len(text)))
  ELSE <<Head(text)>> \o Unescaped(Tail(text))

\* bjGetString(r, val) decoding the escapes
bjGetString_decoded(rd, val) ==
  IF val.type # BjSTRING THEN Thrown("Value is not a string")
  ELSE Returned(Unescaped(Substring(rd.data, val.start, val.end)))

\* bjGetString(r, val)
bjGetString(rd, val) ==
  IF val.type # BjSTRING THEN Thrown("Value is not a string")
  ELSE Returned(Substring(rd.data, val.start, val.end))

NaN == "NaN"

\* the value of a run of decimal digits
RECURSIVE DigitsValue(_)
DigitsValue(text) ==
  IF text = <<>> THEN 0
  ELSE 10 * DigitsValue(SubSeq(text, 1, Len(text) - 1))
         + (CHOOSE d \in 0 .. 9 : ToString(d) = text[Len(text)])

\* the longest prefix of text made of decimal digits
RECURSIVE DigitsPrefix(_)
DigitsPrefix(text) ==
  IF text # <<>> /\ Head(text) \in Digits
    THEN <<Head(text)>> \o DigitsPrefix(Tail(text))
    ELSE <<>>

\* parseFloat(text), for text without sign, fraction, exponent or leading
\* white space: the value of its leading digits, NaN when it has none
parseFloat(text) ==
  IF DigitsPrefix(text) = <<>> THEN NaN ELSE DigitsValue(DigitsPrefix(text))

\* bjGetNumber(r, val) without the type test
bjGetNumber_noTest(rd, val) ==
  Returned(parseFloat(Substring(rd.data, val.start, val.end)))

\* bjGetNumber(r, val)
bjGetNumber(rd, val) ==
  IF val.type # NUMBER THEN Thrown("Value is not a number")
  ELSE Returned(parseFloat(Substring(rd.data, val.start, val.end)))

\* bjGetBool(r, val) returning true for every Bool value
bjGetBool_kindOnly(rd, val) ==
  IF val.type # BOOL THEN Thrown("Value is not a boolean")
  ELSE Returned(TRUE)

\* bjGetBool(r, val)
bjGetBool(rd, val) ==
  IF val.type # BOOL THEN Thrown("Value is not a boolean")
  ELSE Returned(Substring(rd.data, val.start, val.end) = LitTrue)

\* bjIsNull(val)
bjIsNull(val) == val.type = NULL

(***************************************************************************)
(* The session: one reader and the caller around it.                       *)
(*   r      the BjReader                                                   *)
(*   ret    what the last call returned                                    *)
(*   iters  the BjArrayIterator / BjObjectIterator objects of the caller's *)
(*          nested for-of loops, outermost first                           *)
(*   log    for each of iters, what its steps have yielded so far, whether *)
(*          a loop over one of its elements was opened, and how the last   *)
(*          such loop stood when it was left                               *)
(*   doc    the document the text was rendered from (well-formed inputs)   *)
(*   visited  the scalar values a recursive traversal was handed so far    *)
(***************************************************************************)
VARIABLES r, ret, iters, log, doc, visited

vars == <<r, ret, iters, log, doc, visited>>

Ret(op, arg, dn, k, v, toks, serr, thr) ==
  [op |-> op, arg |-> arg, done |-> dn, key |-> k, value |-> v,
   scanned |-> toks, scanError |-> serr, threw |-> thr]

\* free-form inputs: every concatenation of at most MaxTok of these
Lexemes ==
  { <<"[">>, <<"]">>, <<"{">>, <<"}">>, <<",">>, <<"\"">>, <<"\\">>,
    <<"1">>, LitNull }

RECURSIVE Concats(_)
Concats(n) ==
  IF n = 0 THEN {<<>>}
  ELSE LET shorter == Concats(n - 1)
       IN  shorter \cup {s \o l : s \in shorter, l \in Lexemes}

NoDoc == [tree |-> <<>>, style |-> 0]

Init ==
  /\ \E text \in Concats(MaxTok) : r = bjReader(text)
  /\ ret = Ret("bjReader", 0, FALSE, NoValue, NoValue, <<>>, NoError, FALSE)
  /\ iters = <<>>
  /\ log = <<>>
  /\ doc = NoDoc
  /\ visited = <<>>

\* bjRead(r), called by the caller itself.  A caller that scans by hand while
\* its loops are open has left them: the loops' iterators are dropped, any
\* later step of theirs being one of the bare steps below.
Read ==
  LET o == bjRead(r)
  IN  /\ r' = o.r
      /\ ret' = Ret("bjRead", 0, FALSE, NoValue, o.val, <<o.val>>, o.r.error, FALSE)
      /\ iters' = <<>>
      /\ log' = <<>>
      /\ UNCHANGED <<doc, visited>>

\* the log of an iterator no step was made on
NewLog == [items |-> <<>>, done |-> FALSE, entered |-> FALSE, left |-> "none", at |-> 0]

\* how the loop of log entry l stands
Standing(l) ==
  IF l.done THEN "exhausted" ELSE IF l.items = <<>> THEN "unstepped" ELSE "midway"

\* the constructors without their type test
NewIterator_noTest(kind) ==
  /\ ret.value # NoValue
  /\ ret.op \in {"bjRead", "bjIterArray", "bjIterObject"}
  /\ ret' = Ret(IF kind = "array" THEN "new BjArrayIterator" ELSE "new BjObjectIterator",
                0, FALSE, NoValue, ret.value, <<>>, r.error, FALSE)
  /\ iters' = Append(iters, [kind |-> kind, container |-> ret.value])
  /\ log' = Append(IF log = <<>> THEN log
                    ELSE [log EXCEPT ![Len(log)].entered = TRUE],
                    NewLog)
  /\ UNCHANGED <<r, doc, visited>>

\* new BjArrayIterator(reader, value) / new BjObjectIterator(reader, value)
\* on the value the last call returned; the constructor throws on another type
NewIterator(kind) ==
  /\ ret.value # NoValue
  /\ ret.op \in {"bjRead", "bjIterArray", "bjIterObject"}
  /\ LET want == IF kind = "array" THEN ARRAY ELSE OBJECT
         op == IF kind = "array" THEN "new BjArrayIterator" ELSE "new BjObjectIterator"
     IN  IF ret.value.type # want
           THEN /\ ret' = Ret(op, 0, FALSE, NoValue, ret.value, <<>>, r.error, TRUE)
                /\ UNCHANGED <<iters, log>>
           ELSE /\ ret' = Ret(op, 0, FALSE, NoValue, ret.value, <<>>, r.error, FALSE)
                /\ iters' = Append(iters, [kind |-> kind, container |-> ret.value])
                /\ log' = Append(IF log = <<>> THEN log
                                  ELSE [log EXCEPT ![Len(log)].entered = TRUE],
                                  NewLog)
  /\ UNCHANGED <<r, doc, visited>>

NewArrayIterator == NewIterator("array")

NewObjectIterator == NewIterator("object")

\* one step of the generator of iters[i]: the loops inside it were left by
\* break.  Stepping an iterator that has already reported done leaves the
\* for-of pattern, and the caller's iterators are dropped as in Read.
Next_(i) ==
  LET it == iters[i]
      res == IF it.kind = "array" THEN bjIterArray(r, it.container)
                                 ELSE bjIterObject(r, it.container)
      op == IF it.kind = "array" THEN "bjIterArray" ELSE "bjIterObject"
  IN  /\ r' = res.r
      /\ ret' = Ret(op, it.container.depth, res.done, res.key, res.value,
                    res.scanned, res.scanError, FALSE)
      /\ IF log[i].done
           THEN iters' = <<>> /\ log' = <<>>
           ELSE /\ iters' = SubSeq(iters, 1, i)
                /\ log' = [SubSeq(log, 1, i) EXCEPT ![i] =
                             [items |-> IF res.done THEN @.items
                                        ELSE Append(@.items, [key |-> res.key, value |-> res.value]),
                              done |-> res.done,
                              entered |-> @.entered,
                              left |-> IF i < Len(iters) THEN Standing(log[i + 1]) ELSE @.left,
                              at |-> IF i < Len(iters) THEN Len(@.items) ELSE @.at]]
      /\ UNCHANGED doc

IterStep == \E i \in 1 .. Len(iters) : Next_(i) /\ UNCHANGED visited

\* bjIterArray(r, arr) on any container value: only arr.depth is read
BareIterArray ==
  \E d \in 0 .. MaxArgDepth :
    LET res == bjIterArray(r, BjValue(ARRAY, 0, 1, d))
    IN  /\ r' = res.r
        /\ ret' = Ret("bjIterArray", d, res.done, res.key, res.value, res.scanned,
                      res.scanError, FALSE)
        /\ iters' = <<>>
        /\ log' = <<>>
        /\ UNCHANGED <<doc, visited>>

\* bjIterObject(r, obj) on any container value: only obj.depth is read
BareIterObject ==
  \E d \in 0 .. MaxArgDepth :
    LET res == bjIterObject(r, BjValue(OBJECT, 0, 1, d))
    IN  /\ r' = res.r
        /\ ret' = Ret("bjIterObject", d, res.done, res.key, res.value, res.scanned,
                      res.scanError, FALSE)
        /\ iters' = <<>>
        /\ log' = <<>>
        /\ UNCHANGED <<doc, visited>>

Next ==
  \/ Read
  \/ NewArrayIterator
  \/ NewObjectIterator
  \/ IterStep
  \/ BareIterArray
  \/ BareIterObject

Spec == Init /\ [][Next]_vars


(***************************************************************************)
(* Well-formed documents.  A document is a tree of values and a layout; the *)
(* text handed to bjReader is its rendering.  Where each value lies in the *)
(* text, and which token the grammar makes of it, is computed here from    *)
(* the tree alone, without the scanner.                                    *)
(***************************************************************************)
Leaf(type, text) == [kind |-> "scalar", type |-> type, text |-> text, kids |-> <<>>]

Container(kind, kids) ==
  [kind |-> kind, type |-> IF kind = "array" THEN ARRAY ELSE OBJECT,
   text |-> <<>>, kids |-> kids]

\* "\"]" : a string holding an escaped quote and a bracket
EscapedString == <<"\"", "\\", "\"", "]", "\"">>

Scalars ==
  { Leaf(NUMBER, <<"-", "1", "e", "2">>), Leaf(BjSTRING, <<"\"", "a", "\"">>),
    Leaf(BjSTRING, EscapedString), Leaf(BOOL, LitTrue), Leaf(NULL, LitNull) }

\* the scalar used in nested documents
NestedScalars == {Leaf(BjSTRING, EscapedString)}

\* the trees of exactly n values over the given scalars, and the sequences of
\* trees of m values in all
RECURSIVE TreesOfSize(_, _), ForestsOfSize(_, _)
TreesOfSize(n, scalars) ==
  (IF n = 1 THEN scalars ELSE {})
    \cup {Container(k, f) : k \in {"array", "object"}, f \in ForestsOfSize(n - 1, scalars)}

ForestsOfSize(m, scalars) ==
  IF m = 0 THEN {<<>>}
  ELSE UNION { {<<t>> \o f : t \in TreesOfSize(k, scalars),
                            f \in ForestsOfSize(m - k, scalars)} : k \in 1 .. m }

\* the flat containers of at most n scalars
FlatTrees(n) ==
  UNION { {Container(k, f) : k \in {"array", "object"}, f \in [1 .. w -> Scalars]}
          : w \in 0 .. n }

\* the documents of at most MaxNodes values
NestedTrees == UNION {TreesOfSize(n, NestedScalars) : n \in 1 .. MaxNodes}

Compact ==
  [lead |-> <<>>, open |-> <<>>, sep |-> <<",">>, colon |-> <<":">>,
   close |-> <<>>, trail |-> <<>>]

Spaced ==
  [lead |-> <<" ">>, open |-> <<"\n">>, sep |-> <<",", " ">>,
   colon |-> <<"\t", ":", " ">>, close |-> <<"\r">>, trail |-> <<"\n">>]

\* flat containers of every scalar in both layouts, and every nesting of
\* containers in the spaced layout
Docs ==
  [tree : FlatTrees(MaxNodes - 1), style : {Compact, Spaced}]
    \cup [tree : NestedTrees, style : {Spaced}]

\* the key of the i-th pair of an object: "k" or "\""
KeyText(i) ==
  IF i % 2 = 1 THEN <<"\"", "k", "\"">> ELSE <<"\"", "\\", "\"", "\"">>

RECURSIVE TextOf(_, _), ItemsText(_, _, _)
\* the text of a value
TextOf(t, st) ==
  IF t.kind = "scalar" THEN t.text
  ELSE (IF t.kind = "array" THEN <<"[">> ELSE <<"{">>)
         \o st.open \o ItemsText(t, st, Len(t.kids)) \o st.close
         \o (IF t.kind = "array" THEN <<"]">> ELSE <<"}">>)

\* the text of the first n elements or pairs of a container
ItemsText(t, st, n) ==
  IF n = 0 THEN <<>>
  ELSE (IF n = 1 THEN <<>> ELSE ItemsText(t, st, n - 1) \o st.sep)
         \o (IF t.kind = "object" THEN KeyText(n) \o st.colon ELSE <<>>)
         \o TextOf(t.kids[n], st)

DocText(d) == d.style.lead \o TextOf(d.tree, d.style) \o d.style.trail

\* offset of the i-th element or pair of the container t that starts at pos
ItemPos(t, st, pos, i) ==
  pos + 1 + Len(st.open)
    + (IF i = 1 THEN 0 ELSE Len(ItemsText(t, st, i - 1)) + Len(st.sep))

\* offset of the i-th child value
ValuePos(t, st, pos, i) ==
  ItemPos(t, st, pos, i)
    + (IF t.kind = "object" THEN Len(KeyText(i)) + Len(st.colon) ELSE 0)

\* offset of the closing bracket
ClosePos(t, st, pos) == pos + Len(TextOf(t, st)) - 1

\* the token of the value t that starts at pos below d open containers
TokenOf(t, st, pos, d) ==
  IF t.kind = "scalar"
    THEN IF t.type = BjSTRING
           THEN BjValue(BjSTRING, pos + 1, pos + Len(t.text) - 1, d)
           ELSE BjValue(t.type, pos, pos + Len(t.text), d)
    ELSE BjValue(t.type, pos, pos + 1, d + 1)

\* the children of the container t that starts at pos below d open
\* containers: the tokens of each element, or of each key and value
Children(t, st, pos, d) ==
  [i \in 1 .. Len(t.kids) |->
     [key |-> IF t.kind = "object"
                THEN BjValue(BjSTRING, ItemPos(t, st, pos, i) + 1,
                             ItemPos(t, st, pos, i) + Len(KeyText(i)) - 1, d + 1)
                ELSE NoValue,
      value |-> TokenOf(t.kids[i], st, ValuePos(t, st, pos, i), d + 1)]]

\* the value whose token is c, with its offset and the number of containers
\* open around it, searched in t and below from the i-th child of t on: a
\* one-element sequence, or the empty one when there is none
RECURSIVE Find(_, _, _, _, _), FindBelow(_, _, _, _, _, _)
Find(t, st, pos, d, c) ==
  IF TokenOf(t, st, pos, d) = c
    THEN <<[t |-> t, pos |-> pos, d |-> d]>>
    ELSE FindBelow(t, st, pos, d, c, 1)

FindBelow(t, st, pos, d, c, i) ==
  IF i > Len(t.kids) THEN <<>>
  ELSE LET f == Find(t.kids[i], st, ValuePos(t, st, pos, i), d + 1, c)
       IN  IF f # <<>> THEN f ELSE FindBelow(t, st, pos, d, c, i + 1)

InitWF ==
  /\ doc \in Docs
  /\ r = bjReader(DocText(doc))
  /\ ret = Ret("bjReader", 0, FALSE, NoValue, NoValue, <<>>, NoError, FALSE)
  /\ iters = <<>>
  /\ log = <<>>
  /\ visited = <<>>

\* a for-of loop is opened over the container value just returned, with the
\* iterator class of its type
OpenLoop == (NewArrayIterator \/ NewObjectIterator) /\ ~ret'.threw

\* the caller that scans and drives for-of loops
NextWF ==
  \/ Read
  \/ OpenLoop
  \/ IterStep

SpecWF == InitWF /\ [][NextWF]_vars

(***************************************************************************)
(* Properties of the scanner and the iterator steps on arbitrary input.    *)
(***************************************************************************)

\* C1: in every reachable state the reader's depth is >= 0 (a closing bracket
\* scanned at depth 0 sets the stray-close error and leaves depth at 0).
C1_DepthNeverNegative == r.depth >= 0

\* C2: once r.error is set, a scan returns an Error value and leaves the
\* reader (position, depth, error message) as it was.
C2_ScanAfterErrorIsNoOp ==
  [][(r.error # NoError /\ ret'.op = "bjRead")
       => (ret'.value.type = ERROR /\ r' = r)]_vars

\* a scan was made on a reader whose unclosed-string error was already set:
\* the recording scan's value spans the string, a later one is empty
C2_Witness ==
  /\ ret.op = "bjRead"
  /\ r.error = ErrUnclosedString
  /\ ret.value.start = ret.value.end

C4_FirstErrorKept ==
  [][/\ r.error # NoError => r'.error = r.error
     /\ ret'.scanError # NoError => r'.error = ret'.scanError]_vars

\* an object-iterator step has run on a reader whose error was set by a scan
C4_Witness ==
  /\ ret.op = "bjIterObject"
  /\ ret.scanError # NoError
  /\ Len(ret.scanned) = 2

(***************************************************************************)
(* Properties of scanning and iterating well-formed documents (SpecWF).    *)
(* The iterators of iters are those of open for-of loops: each was made on *)
(* the container value just returned and has been stepped only by its own  *)
(* loop, the loops inside it being left by break or by exhaustion.         *)
(***************************************************************************)

\* the value of the document whose token is c
NodeOf(c) == Find(doc.tree, doc.style, Len(doc.style.lead), 0, c)[1]

IsNode(c) == Find(doc.tree, doc.style, Len(doc.style.lead), 0, c) # <<>>

\* the children, by the grammar, of the container iters[i] iterates
ChildrenOf(i) ==
  LET n == NodeOf(iters[i].container)
  IN  Children(n.t, doc.style, n.pos, n.d)

\* items is the first Len(items) of kids
IsPrefix(items, kids) ==
  /\ Len(items) <= Len(kids)
  /\ \A j \in 1 .. Len(items) : items[j] = kids[j]

\* what iters[i] has yielded is the first children of its container in
\* source order, and all of them, with no error set, once it reported done
YieldsChildren(i) ==
  /\ IsNode(iters[i].container)
  /\ LET kids == ChildrenOf(i)
     IN  /\ IsPrefix(log[i].items, kids)
         /\ log[i].done => (Len(log[i].items) = Len(kids) /\ r.error = NoError)

\* the text of a value's span: r.data.substring(v.start, v.end)
SpanText(v) == Substring(r.data, v.start, v.end)

\* C5: when the loop over a nested container N, a child of P, was left after
\* any number of steps (none, some, or all up to N's exhaustion), the steps
\* of P's iterator that follow yield exactly the siblings after N in source
\* order, whatever the number of steps made on N.
C5_EarlyTermination ==
  \A i \in 1 .. Len(iters) :
    log[i].left # "none" =>
      /\ IsNode(iters[i].container)
      /\ LET kids == ChildrenOf(i)
         IN  /\ log[i].at \in 1 .. Len(kids)
             /\ kids[log[i].at].value.type \in {ARRAY, OBJECT}
             /\ Len(log[i].items) <= Len(kids)
             /\ \A j \in log[i].at + 1 .. Len(log[i].items) :
                  log[i].items[j] = kids[j]
             /\ log[i].done => (Len(log[i].items) = Len(kids) /\ r.error = NoError)

\* P's loop has ended after the loop over a child N was left midway, and a
\* sibling after N was yielded
C5_Witness ==
  \E i \in 1 .. Len(iters) :
    /\ log[i].left = "midway"
    /\ log[i].done
    /\ Len(log[i].items) > log[i].at

\* C6: scanning a well-formed document whose root is a container token by
\* token, depth is >= 1 after every scan up to the one that returns the root's
\* closing bracket, and after that one depth is 0 and no error is set.
C6_DepthOverRoot ==
  (/\ doc.tree.kind # "scalar"
   /\ ret.op = "bjRead"
   /\ ret.value.type # ERROR) =>
     LET close == ClosePos(doc.tree, doc.style, Len(doc.style.lead))
     IN  /\ r.error = NoError
         /\ r.cur <= close + 1
         /\ IF ret.value = BjValue(END, close, close + 1, 1)
              THEN r.depth = 0 /\ r.cur = close + 1
              ELSE r.depth >= 1 /\ r.cur <= close

\* a scan has returned the End of the root of a document with a nested
\* container
C6_Witness ==
  /\ doc.tree.kind # "scalar"
  /\ \E i \in 1 .. Len(doc.tree.kids) : doc.tree.kids[i].kind # "scalar"
  /\ ret.op = "bjRead"
  /\ ret.value.type = END
  /\ r.depth = 0

\* the containers of the value t that starts at pos below d open containers,
\* t with them: for each the token of its opening and the offset of its
\* closing bracket
RECURSIVE ContainersOf(_, _, _, _)
ContainersOf(t, st, pos, d) ==
  IF t.kind = "scalar" THEN {}
  ELSE {[open |-> TokenOf(t, st, pos, d), close |-> ClosePos(t, st, pos)]}
         \cup UNION { ContainersOf(t.kids[i], st, ValuePos(t, st, pos, i), d + 1) :
                        i \in 1 .. Len(t.kids) }

\* C38: every End value a scan of a well-formed document returns, by itself
\* or inside an iterator step, lies at the closing bracket of a container of
\* the document and has the depth of the value returned for that container's
\* opening; when it is the last value scanned, the reader's depth is one less
\* than the depth of the End value.
C38_EndDepth ==
  ret.op \in {"bjRead", "bjIterArray", "bjIterObject"} =>
    \A j \in 1 .. Len(ret.scanned) :
      LET e == ret.scanned[j]
          cs == ContainersOf(doc.tree, doc.style, Len(doc.style.lead), 0)
      IN  e.type = END =>
            /\ \E c \in cs : c.close = e.start
            /\ \A c \in cs : c.close = e.start => e.depth = c.open.depth
            /\ j = Len(ret.scanned) => r.depth = e.depth - 1

\* a scan has returned the End of a container nested in the root: its depth
\* is 2 and the reader's depth is 1
C38_Witness ==
  /\ ret.op = "bjRead"
  /\ ret.value.type = END
  /\ ret.value.depth = 2
  /\ r.depth = 1
  /\ r.error = NoError
  /\ doc.tree.kind = "array"

AllScalar(t) == \A j \in 1 .. Len(t.kids) : t.kids[j].kind = "scalar"

\* the text of a scalar as an accessor projects it: a string's without quotes
Projected(t) ==
  IF t.type = BjSTRING THEN SubSeq(t.text, 2, Len(t.text) - 1) ELSE t.text

\* C7: the array-iterator steps over a well-formed array of scalars yield one
\* value per element in source order, each of the element's kind and with the
\* element's text as its span (a string's between its quotes), and the step
\* after the last element reports done with no error set.
C7_ScalarArray ==
  \A i \in 1 .. Len(iters) :
    iters[i].kind = "array" =>
      /\ IsNode(iters[i].container)
      /\ AllScalar(NodeOf(iters[i].container).t) =>
           /\ YieldsChildren(i)
           /\ LET elems == NodeOf(iters[i].container).t.kids
              IN  \A j \in 1 .. Len(log[i].items) :
                    /\ log[i].items[j].value.type = elems[j].type
                    /\ SpanText(log[i].items[j].value) = Projected(elems[j])

\* the loop over an array of MaxNodes - 1 scalars, a number and a string with
\* an escaped quote among them, has ended
C7_Witness ==
  \E i \in 1 .. Len(iters) :
    /\ iters[i].kind = "array"
    /\ log[i].done
    /\ Len(log[i].items) = MaxNodes - 1
    /\ \E j \in 1 .. Len(log[i].items) : log[i].items[j].value.type = NUMBER
    /\ \E j \in 1 .. Len(log[i].items) :
         SpanText(log[i].items[j].value) = Projected(Leaf(BjSTRING, EscapedString))

\* C8: the object-iterator steps over a well-formed object yield its pairs
\* once each in source order, the span of each key being the key's text
\* without its quotes, and the step after the last pair reports done with no
\* error set.
C8_ObjectPairs ==
  \A i \in 1 .. Len(iters) :
    iters[i].kind = "object" =>
      /\ YieldsChildren(i)
      /\ \A j \in 1 .. Len(log[i].items) :
           /\ log[i].items[j].key.type = BjSTRING
           /\ SpanText(log[i].items[j].key) = SubSeq(KeyText(j), 2, Len(KeyText(j)) - 1)

\* the loop over an object of at least two pairs has ended
C8_Witness ==
  \E i \in 1 .. Len(iters) :
    /\ iters[i].kind = "object"
    /\ log[i].done
    /\ Len(log[i].items) >= 2

\* C9: a loop that never opened a loop over any of its elements yields
\* exactly the direct children of its container, a nested container as its
\* container-open value, and ends with no error set.
C9_DirectChildren ==
  \A i \in 1 .. Len(iters) : ~log[i].entered => YieldsChildren(i)

\* such a loop has ended over a container one of whose children is a
\* container that is not empty
C9_Witness ==
  \E i \in 1 .. Len(iters) :
    /\ ~log[i].entered
    /\ log[i].done
    /\ \E j \in 1 .. Len(log[i].items) :
         /\ log[i].items[j].value.type \in {ARRAY, OBJECT}
         /\ NodeOf(log[i].items[j].value).t.kids # <<>>

(***************************************************************************)
(* Properties of the object-iterator step on arbitrary input (Spec).       *)
(***************************************************************************)

\* C10: in an object-iterator step, a key slot that scans to End ends the
\* iteration without an error; a key slot that scans to a token and a value
\* slot that scans to End sets "unexpected object end", yields no pair and
\* ends the iteration.
C10_ObjectSlots ==
  ret.op = "bjIterObject" =>
    /\ ret.scanned[1].type = END =>
         (ret.done /\ Len(ret.scanned) = 1 /\ r.error = NoError)
    /\ (Len(ret.scanned) = 2 /\ ret.scanned[2].type = END) =>
         /\ ret.scanned[1].type \notin {END, ERROR}
         /\ r.error = ErrObjectEnd
         /\ ret.done
         /\ ret.key = NoValue
         /\ ret.value = NoValue

\* an object-iterator step found End in the value slot
C10_Witness ==
  /\ ret.op = "bjIterObject"
  /\ Len(ret.scanned) = 2
  /\ ret.scanned[2].type = END
  /\ r.error = ErrObjectEnd

(***************************************************************************)
(* Properties of the constructors and of the steps made after an error     *)
(* (Spec).                                                                 *)
(***************************************************************************)

\* C16: new BjArrayIterator throws exactly when the value is not of type
\* ARRAY and new BjObjectIterator exactly when it is not of type OBJECT; a
\* construction that throws makes no iterator, and no construction changes
\* the reader.
C16_ConstructorTypeTest ==
  [][/\ ret'.op = "new BjArrayIterator" =>
          (ret'.threw <=> ret.value.type # ARRAY)
     /\ ret'.op = "new BjObjectIterator" =>
          (ret'.threw <=> ret.value.type # OBJECT)
     /\ ret'.op \in {"new BjArrayIterator", "new BjObjectIterator"} =>
          /\ r' = r
          /\ ret'.threw => iters' = iters]_vars

\* new BjObjectIterator has thrown on the Array value a scan returned
C16_Witness ==
  /\ ret.op = "new BjObjectIterator"
  /\ ret.threw
  /\ ret.value.type = ARRAY
  /\ r.depth = 1
  /\ iters = <<>>

\* C19: once r.error is set, every call leaves the reader as it is: a scan
\* returns an Error value, and an array-iterator or object-iterator step
\* reports done with no key and no value, the scans of its slots returning
\* Error values.
C19_NoRecovery ==
  [][r.error # NoError =>
       /\ r' = r
       /\ ret'.op = "bjRead" => ret'.value.type = ERROR
       /\ ret'.op \in {"bjIterArray", "bjIterObject"} =>
            /\ ret'.done
            /\ ret'.key = NoValue
            /\ ret'.value = NoValue
            /\ \A j \in 1 .. Len(ret'.scanned) : ret'.scanned[j].type = ERROR]_vars

\* an array-iterator step was made on a reader whose error an earlier
\* object-iterator step had set
C19_Witness ==
  /\ ret.op = "bjIterArray"
  /\ ret.done
  /\ r.error = "unexpected object end"

(***************************************************************************)
(* The scanner alone: a caller that only calls bjRead, on texts of a wider *)
(* alphabet.                                                               *)
(***************************************************************************)
ScanLexemes ==
  { <<"[">>, <<"]">>, <<"{">>, <<"}">>, <<",">>, <<"\n">>, <<"\"">>, <<"\\">>,
    <<"1">>, LitTrue, LitNull }

\* every concatenation of at most n of the lexemes lex
RECURSIVE ConcatsOf(_, _)
ConcatsOf(lex, n) ==
  IF n = 0 THEN {<<>>}
  ELSE LET shorter == ConcatsOf(lex, n - 1)
       IN  shorter \cup {s \o l : s \in shorter, l \in lex}

InitScan ==
  /\ \E text \in ConcatsOf(ScanLexemes, MaxTok) : r = bjReader(text)
  /\ ret = Ret("bjReader", 0, FALSE, NoValue, NoValue, <<>>, NoError, FALSE)
  /\ iters = <<>>
  /\ log = <<>>
  /\ doc = NoDoc
  /\ visited = <<>>

SpecScan == InitScan /\ [][Read]_vars

\* the offset of the first character at or after cur that is not white
\* space, a comma or a colon: where the next token starts (end when none)
RECURSIVE TokenStart(_, _, _)
TokenStart(text, cur, end) ==
  IF cur < end /\ CharAt(text, cur) \in {" ", "\n", "\r", "\t", ":", ","}
    THEN TokenStart(text, cur + 1, end)
    ELSE cur

\* C11: a scan whose next token is '}' or ']' while depth is 0 returns an
\* Error value, sets the message of that bracket ("stray '}'" for '}',
\* "stray ']'" for ']') and leaves the position at the bracket.
C11_StrayClose ==
  [][LET p == TokenStart(r.data, r.cur, r.end)
     IN  (/\ ret'.op = "bjRead"
          /\ r.error = NoError
          /\ r.depth = 0
          /\ p < r.end
          /\ CharAt(r.data, p) \in {"}", "]"})
           => /\ ret'.value.type = ERROR
              /\ r'.error = (IF CharAt(r.data, p) = "}" THEN "stray '}'" ELSE "stray ']'")
              /\ r'.cur = p]_vars

\* a scan has met a stray '}' after a closed container
C11_Witness ==
  /\ ret.op = "bjRead"
  /\ ret.value.type = ERROR
  /\ r.error = "stray '}'"
  /\ r.cur = 2
  /\ CharAt(r.data, 0) = "["
  /\ CharAt(r.data, r.cur) = "}"

\* the number of consecutive backslashes that end right before offset q,
\* counted down to offset lo
RECURSIVE BackslashesBefore(_, _, _)
BackslashesBefore(text, q, lo) ==
  IF q > lo /\ CharAt(text, q - 1) = "\\"
    THEN 1 + BackslashesBefore(text, q - 1, lo)
    ELSE 0

\* the quotes after the opening quote at p that close the string: those
\* with an even number of backslashes right before them
ClosingQuotes(text, p, end) ==
  { q \in p + 1 .. end - 1 :
      CharAt(text, q) = "\"" /\ BackslashesBefore(text, q, p + 1) % 2 = 0 }

\* C13: a scan whose next token starts with a quote that no unescaped quote
\* follows returns an Error value and sets "unclosed string", leaving depth
\* as it was and the position at most at the end of the text.
C13_UnclosedString ==
  [][LET p == TokenStart(r.data, r.cur, r.end)
     IN  (/\ ret'.op = "bjRead"
          /\ r.error = NoError
          /\ p < r.end
          /\ CharAt(r.data, p) = "\""
          /\ ClosingQuotes(r.data, p, r.end) = {})
           => /\ ret'.value.type = ERROR
              /\ r'.error = "unclosed string"
              /\ r'.depth = r.depth
              /\ r'.cur <= r'.end
              /\ r'.end = Len(r'.data)]_vars

\* "unclosed string" was set inside a container for a string that ends with
\* a backslash
C13_Witness ==
  /\ ret.op = "bjRead"
  /\ ret.value.type = ERROR
  /\ r.error = "unclosed string"
  /\ r.depth = 1
  /\ CharAt(r.data, r.end - 1) = "\\"
  /\ r.cur = r.end

\* C18: the depth field of a container-open value returned by a scan is the
\* reader's depth after the scan, one more than before it; the depth field
\* of a Number, String, Bool or Null value is the reader's depth, which the
\* scan leaves as it was.
C18_ValueDepth ==
  [][ret'.op = "bjRead" =>
       /\ ret'.value.type \in {ARRAY, OBJECT} =>
            (ret'.value.depth = r'.depth /\ r'.depth = r.depth + 1)
       /\ ret'.value.type \in {NUMBER, BjSTRING, BOOL, NULL} =>
            (ret'.value.depth = r'.depth /\ r'.depth = r.depth)]_vars

\* a scan has returned a scalar inside two open containers
C18_Witness ==
  /\ ret.op = "bjRead"
  /\ ret.value.type \in {NUMBER, BjSTRING, BOOL, NULL}
  /\ ret.value.depth = 2
  /\ r.depth = 2
  /\ CharAt(r.data, 1) = "{"

\* C36: a scan whose next token is '}' or ']' while depth is at least 1
\* returns an End value, takes one off the depth and sets no error, whichever
\* bracket opened the innermost container: the texts [} and {] are scanned to
\* their end with depth 0 and no error.
C36_AnyCloseEnds ==
  [][LET p == TokenStart(r.data, r.cur, r.end)
     IN  (/\ ret'.op = "bjRead"
          /\ r.error = NoError
          /\ p < r.end
          /\ CharAt(r.data, p) \in {"}", "]"}
          /\ r.depth >= 1)
           => /\ ret'.value = BjValue(END, p, p + 1, r.depth)
              /\ r'.depth = r.depth - 1
              /\ r'.cur = p + 1
              /\ r'.error = NoError]_vars

\* the text [} was scanned to its end: the brace was returned as End, the
\* depth is 0 and no error is set
C36_Witness ==
  /\ ret.op = "bjRead"
  /\ ret.value.type = END
  /\ r.data = <<"[", "}">>
  /\ r.cur = 2
  /\ r.depth = 0
  /\ r.error = NoError

(***************************************************************************)
(* The scanner on the texts of three alphabets: of numbers, of literals    *)
(* and of strings.                                                         *)
(***************************************************************************)
NumberLexemes ==
  { <<"1">>, <<"-">>, <<"+">>, <<".">>, <<"e">>, <<"E">>, <<",">>, <<"[">>, <<"x">> }

\* "nul", "tru" and "fals" are the literals cut short
LiteralLexemes ==
  { LitNull, LitTrue, LitFalse, <<"n", "u", "l">>, <<"t", "r", "u">>,
    <<"f", "a", "l", "s">>, <<"l">>, <<"e">>, <<"L">>, <<",">> }

StringLexemes ==
  { <<"\"">>, <<"\\">>, <<"\\", "\\">>, <<"\\", "\"">>, <<"a">>, <<",">> }

InitTokens ==
  /\ \E text \in ConcatsOf(NumberLexemes, MaxTok)
                   \cup ConcatsOf(LiteralLexemes, MaxTok)
                   \cup ConcatsOf(StringLexemes, MaxTok) : r = bjReader(text)
  /\ ret = Ret("bjReader", 0, FALSE, NoValue, NoValue, <<>>, NoError, FALSE)
  /\ iters = <<>>
  /\ log = <<>>
  /\ doc = NoDoc
  /\ visited = <<>>

SpecTokens == InitTokens /\ [][Read]_vars

\* C21: a scan whose next token starts with a digit or '-' returns a Number
\* value whose span starts there and ends where the run of characters out of
\* 0-9, e, E, '.', '+', '-' ends, and leaves the position there; a scan
\* whose next token starts with '+' or '.' returns an Error value and sets
\* "unknown token".
C21_NumberRun ==
  [][LET p == TokenStart(r.data, r.cur, r.end)
         run == {"0", "1", "2", "3", "4", "5", "6", "7", "8", "9",
                 "e", "E", ".", "+", "-"}
     IN  (ret'.op = "bjRead" /\ r.error = NoError /\ p < r.end) =>
           /\ CharAt(r.data, p) \in {"0", "1", "2", "3", "4", "5", "6", "7", "8", "9", "-"} =>
                /\ ret'.value.type = NUMBER
                /\ ret'.value.start = p
                /\ ret'.value.end > p
                /\ \A i \in p .. ret'.value.end - 1 : CharAt(r.data, i) \in run
                /\ ret'.value.end < r.end => CharAt(r.data, ret'.value.end) \notin run
                /\ r'.cur = ret'.value.end
                /\ r'.error = NoError
           /\ CharAt(r.data, p) \in {"+", "."} =>
                /\ ret'.value.type = ERROR
                /\ r'.error = "unknown token"]_vars

\* a scan has returned the Number "-.", scanned up to a comma
C21_Witness ==
  /\ ret.op = "bjRead"
  /\ ret.value.type = NUMBER
  /\ SpanText(ret.value) = <<"-", ".">>
  /\ r.cur < r.end
  /\ CharAt(r.data, r.cur) = ","

\* text has the characters of lit at offset p, all of them before end
LiteralAt(text, p, end, lit) ==
  /\ p + Len(lit) <= end
  /\ Substring(text, p, p + Len(lit)) = lit

\* C22: a scan returns a Null value only with a span that reads null, and a
\* Bool value only with a span that reads true or false; a scan whose next
\* token starts with n, t or f where none of null, true, false stands in full
\* returns an Error value, sets "unknown token" and leaves the position at
\* the first character of the token.
C22_ExactLiteral ==
  [][LET p == TokenStart(r.data, r.cur, r.end)
     IN  ret'.op = "bjRead" =>
           /\ ret'.value.type = NULL =>
                Substring(r.data, ret'.value.start, ret'.value.end) = <<"n", "u", "l", "l">>
           /\ ret'.value.type = BOOL =>
                Substring(r.data, ret'.value.start, ret'.value.end)
                  \in { <<"t", "r", "u", "e">>, <<"f", "a", "l", "s", "e">> }
           /\ (/\ r.error = NoError
               /\ p < r.end
               /\ CharAt(r.data, p) \in {"n", "t", "f"}
               /\ ~ LiteralAt(r.data, p, r.end, <<"n", "u", "l", "l">>)
               /\ ~ LiteralAt(r.data, p, r.end, <<"t", "r", "u", "e">>)
               /\ ~ LiteralAt(r.data, p, r.end, <<"f", "a", "l", "s", "e">>)) =>
                /\ ret'.value.type = ERROR
                /\ r'.error = "unknown token"
                /\ r'.cur = p]_vars

\* after the token true, a scan has stopped with "unknown token" at the first
\* character of nulL
C22_Witness ==
  /\ ret.op = "bjRead"
  /\ ret.value.type = ERROR
  /\ r.error = "unknown token"
  /\ r.cur = 4
  /\ Substring(r.data, 0, r.end) = <<"t", "r", "u", "e", "n", "u", "l", "L">>

\* the characters that start a token the scan loop has a case for
TokenChars ==
  {"0", "1", "2", "3", "4", "5", "6", "7", "8", "9", "-", "\"", "{", "[", "}", "]",
   "n", "t", "f"}

\* C23: a scan whose next token starts with a character that is no digit and
\* none of - " { [ } ] n t f sets "unknown token", returns an Error value with
\* the empty span at that character and with the depth of the reader, and
\* leaves the position at that character and the depth as it was.
C23_UnknownToken ==
  [][LET p == TokenStart(r.data, r.cur, r.end)
     IN  (/\ ret'.op = "bjRead"
          /\ r.error = NoError
          /\ p < r.end
          /\ CharAt(r.data, p) \notin TokenChars) =>
           /\ r'.error = "unknown token"
           /\ ret'.value = BjValue(ERROR, p, p, r.depth)
           /\ r'.cur = p
           /\ r'.depth = r.depth]_vars

\* inside an array, after a comma, a scan has stopped at the character x
C23_Witness ==
  /\ ret.op = "bjRead"
  /\ ret.value.type = ERROR
  /\ r.error = "unknown token"
  /\ r.depth = 1
  /\ r.cur = 2
  /\ CharAt(r.data, 1) = ","
  /\ CharAt(r.data, 2) = "x"
  /\ ret.value.start = 2

\* the character at q of a string whose first character is at lo is stepped
\* over: the character before it is a backslash that was not itself stepped over
RECURSIVE SteppedOver(_, _, _)
SteppedOver(text, q, lo) ==
  /\ q > lo
  /\ CharAt(text, q - 1) = "\\"
  /\ ~ SteppedOver(text, q - 1, lo)

\* the quotes after the opening quote at p that are not stepped over
OpenQuotes(text, p, end) ==
  { q \in p + 1 .. end - 1 : CharAt(text, q) = "\"" /\ ~ SteppedOver(text, q, p + 1) }

\* C25: a scan whose next token starts with a quote returns a String value
\* whose span runs from after that quote to the first later quote that is not
\* stepped over, each backslash that is not stepped over stepping over the
\* character after it, and leaves the position after that quote; with no such
\* quote, as when the input ends with a backslash that is not stepped over,
\* it returns an Error value and sets "unclosed string".
C25_BackslashSkips ==
  [][LET p == TokenStart(r.data, r.cur, r.end)
         qs == OpenQuotes(r.data, p, r.end)
     IN  (/\ ret'.op = "bjRead"
          /\ r.error = NoError
          /\ p < r.end
          /\ CharAt(r.data, p) = "\"") =>
           /\ qs # {} =>
                LET q == CHOOSE x \in qs : \A y \in qs : x <= y
                IN  /\ ret'.value = BjValue(BjSTRING, p + 1, q, r.depth)
                    /\ r'.cur = q + 1
                    /\ r'.error = NoError
           /\ qs = {} =>
                /\ ret'.value.type = ERROR
                /\ r'.error = "unclosed string"]_vars

\* a scan has returned the String made of two backslashes, closed by the
\* quote that follows them
C25_Witness ==
  /\ ret.op = "bjRead"
  /\ ret.value.type = BjSTRING
  /\ Substring(r.data, 0, r.end) = <<"\"", "\\", "\\", "\"">>
  /\ ret.value.start = 1
  /\ ret.value.end = 3
  /\ r.cur = 4

\* C26: in every step of bjIterArray and bjIterObject on a container value
\* of depth d, the first one of a loop too, bjDiscardUntil(r, d) runs before
\* the first scan: it leaves the reader with depth d or with its error set,
\* and leaves a reader that already has depth d as it is; so the first token
\* of the step is an Error value or was scanned at depth d, and at depth d the
\* step scans on from where the reader stands.
C26_DiscardFirst ==
  [][ret'.op \in {"bjIterArray", "bjIterObject"} =>
       LET d == ret'.arg
           rd == bjDiscardUntil(r, d)
           first == ret'.scanned[1]
       IN  /\ rd.depth = d \/ rd.error # NoError
           /\ r.depth = d => rd = r
           /\ first = bjRead(rd).val
           /\ first.type \in {ARRAY, OBJECT} => first.depth = d + 1
           /\ first.type \notin {ARRAY, OBJECT, ERROR} => first.depth = d
           /\ (r.depth = d /\ r.error = NoError /\ first.type # ERROR) =>
                first.start >= r.cur]_vars

\* a step on a container of depth 1 was made at depth 2 in front of a ']':
\* the bracket was discarded, and the step ran into the end of the input
C26_Witness ==
  /\ ret.op = "bjIterArray"
  /\ ret.arg = 1
  /\ r.data = <<"[", "[", "]">>
  /\ ret.done
  /\ r.error = "unexpected eof"
  /\ r.depth = 1

\* C27: a step of bjIterObject whose first scan returns a value that is
\* neither End nor Error scans a second value, and when that is neither End
\* nor Error either, the step yields the two as key and value, whatever the
\* kind of the first: a String, a Number, a Bool, a Null, or the opening of a
\* container.
C27_AnyKindOfKey ==
  [][ret'.op = "bjIterObject" =>
       LET k == bjRead(bjDiscardUntil(r, ret'.arg))
           v == bjRead(k.r)
       IN  /\ k.val.type \notin {END, ERROR} =>
                /\ Len(ret'.scanned) = 2
                /\ ret'.scanned[2] = v.val
           /\ (k.val.type \notin {END, ERROR} /\ v.val.type \notin {END, ERROR}) =>
                /\ ~ ret'.done
                /\ ret'.key = k.val
                /\ ret'.value = v.val
                /\ r' = v.r]_vars

\* a step of an object iterator has yielded the opening of an array as the
\* key and a Number as the value
C27_Witness ==
  /\ ret.op = "bjIterObject"
  /\ ~ ret.done
  /\ ret.key.type = ARRAY
  /\ ret.value.type = NUMBER
  /\ r.data = <<"{", "[", "1">>
  /\ iters # <<>>

\* C28: what a step of bjIterArray or bjIterObject returns, and the reader
\* it leaves, are those of the same function on the reader as it stands and
\* on any other value of the same depth, whatever its kind and its span and
\* whatever steps were made before; a step that yields a value yields one
\* that lies at or after the position the reader had, not one from the start
\* of the container.
C28_StepOfReaderAndDepth ==
  [][ret'.op \in {"bjIterArray", "bjIterObject"} =>
       /\ \A c \in { BjValue(OBJECT, 0, 1, ret'.arg),
                       BjValue(ARRAY, r.end, r.end + 1, ret'.arg) } :
            LET res == IF ret'.op = "bjIterArray"
                         THEN bjIterArray(r, c) ELSE bjIterObject(r, c)
            IN  /\ r' = res.r
                /\ ret'.done = res.done
                /\ ret'.key = res.key
                /\ ret'.value = res.value
       /\ r'.cur >= r.cur
       /\ ~ ret'.done =>
            /\ ret'.value.start >= r.cur
            /\ ret'.op = "bjIterObject" => ret'.key.start >= r.cur]_vars

\* after the caller scanned '[' and null by hand, a step on a container value
\* of depth 1 has yielded the Number that follows them
C28_Witness ==
  /\ ret.op = "bjIterArray"
  /\ ret.arg = 1
  /\ ~ ret.done
  /\ r.data = <<"[", "n", "u", "l", "l", "1">>
  /\ ret.value = BjValue(NUMBER, 5, 6, 1)

(***************************************************************************)
(* The scanner on a text and on the same text with white space, commas or  *)
(* colons put in at a token boundary.  doc keeps the text as it was, r     *)
(* scans the text with the insertion, and visited collects the kind and    *)
(* the span text of every value the scans return, up to the first Error.   *)
(***************************************************************************)
SkipLexemes ==
  { <<"[", "1">>, <<",", "2">>, <<"]">>, <<"\"">>, LitNull, <<"x">> }

Fillers ==
  { <<" ">>, <<"\n", "\r">>, <<"\t">>, <<",">>, <<":">>, <<",", ",">> }

\* the kind and the span text of a value returned by a scan of text
KindAndText(text, v) == <<v.type, Substring(text, v.start, v.end)>>

\* what successive scans by rd return, up to and with the first Error
RECURSIVE Tokens(_)
Tokens(rd) ==
  LET o == bjRead(rd)
  IN  IF o.val.type = ERROR
        THEN <<KindAndText(rd.data, o.val)>>
        ELSE <<KindAndText(rd.data, o.val)>> \o Tokens(o.r)

\* the offsets of rd.data from rd.cur on that lie before the first token or
\* between two tokens or after the last one
RECURSIVE Gaps(_)
Gaps(rd) ==
  LET o == bjRead(rd)
  IN  rd.cur .. TokenStart(rd.data, rd.cur, rd.end)
        \cup (IF o.val.type = ERROR THEN {} ELSE Gaps(o.r))

\* text with the filler put in at offset b
Padded(text, b, filler) ==
  SubSeq(text, 1, b) \o filler \o SubSeq(text, b + 1, Len(text))

InitSkip ==
  /\ \E text \in ConcatsOf(SkipLexemes, MaxTok) :
       \E b \in Gaps(bjReader(text)) :
         \E filler \in Fillers :
           /\ doc = [base |-> text, at |-> b]
           /\ r = bjReader(Padded(text, b, filler))
  /\ ret = Ret("bjReader", 0, FALSE, NoValue, NoValue, <<>>, NoError, FALSE)
  /\ iters = <<>>
  /\ log = <<>>
  /\ visited = <<>>

\* bjRead(r) by a caller that keeps what the scans return and stops at the
\* first Error
ReadToken ==
  LET o == bjRead(r)
  IN  /\ r.error = NoError
      /\ r' = o.r
      /\ ret' = Ret("bjRead", 0, FALSE, NoValue, o.val, <<o.val>>, o.r.error, FALSE)
      /\ visited' = Append(visited, KindAndText(r.data, o.val))
      /\ UNCHANGED <<iters, log, doc>>

SpecSkip == InitSkip /\ [][ReadToken]_vars

\* C24: no value returned by a scan starts at a space, newline, carriage
\* return, tab, comma or colon, and the kinds and span texts returned by the
\* scans of a text with such characters put in before its first token, between
\* two of its tokens or after its last one are those returned by the scans of
\* the text without them: a prefix of them at any time, all of them once a
\* scan has returned Error.
C24_SkipInsertion ==
  /\ IsPrefix(visited, Tokens(bjReader(doc.base)))
  /\ r.error # NoError => visited = Tokens(bjReader(doc.base))
  /\ (ret.op = "bjRead" /\ ret.value.type # ERROR) =>
       LET first == IF ret.value.type = BjSTRING
                      THEN ret.value.start - 1 ELSE ret.value.start
       IN  CharAt(r.data, first) \notin {" ", "\n", "\r", "\t", ",", ":"}

\* [1,,2] was scanned to its end as Array, Number 1, Number 2, End, as [1,2] is
C24_Witness ==
  /\ r.data = <<"[", "1", ",", ",", "2", "]">>
  /\ doc.base = <<"[", "1", ",", "2", "]">>
  /\ visited = << <<ARRAY, <<"[">> >>, <<NUMBER, <<"1">> >>, <<NUMBER, <<"2">> >>,
                 <<END, <<"]">> >> >>
  /\ r.cur = r.end

\* the reader after n scans by rd
RECURSIVE AfterScans(_, _)
AfterScans(rd, n) ==
  IF n = 0 THEN rd ELSE AfterScans(bjRead(rd).r, n - 1)

\* how many of n successive steps on a container value of depth d yield,
\* counted up to the first step that reports done
RECURSIVE YieldsOf(_, _, _, _)
YieldsOf(op, rd, d, n) ==
  IF n = 0 THEN 0
  ELSE LET res == IF op = "bjIterArray" THEN bjIterArray(rd, BjValue(ARRAY, 0, 1, d))
                                       ELSE bjIterObject(rd, BjValue(OBJECT, 0, 1, d))
       IN  IF res.done THEN 0 ELSE 1 + YieldsOf(op, res.r, d, n - 1)

\* C29: every scan and every iterator step, with the discarding it starts
\* with, comes to an end and leaves the position at most at the end of the
\* input and never before where it was; a scan that returns a value other
\* than Error, and a step that yields, leave it strictly after where it was, by
\* at least one character for each value returned.  So the scans that follow
\* one another from a position return Error after at most end - position
\* other values, and the steps that follow one another report done after at
\* most end - position yields.
C29_Progress ==
  [][ret'.op \in {"bjRead", "bjIterArray", "bjIterObject"} =>
       LET left == r.end - r.cur
       IN  /\ r'.cur >= r.cur
           /\ r'.cur <= r'.end
           /\ r'.end = r.end
           /\ r'.data = r.data
           /\ (ret'.op = "bjRead" /\ ret'.value.type # ERROR) => r'.cur > r.cur
           /\ (ret'.op # "bjRead" /\ ~ ret'.done) =>
                r'.cur - r.cur >= Len(ret'.scanned)
           /\ ret'.op = "bjRead" => AfterScans(r, left + 1).error # NoError
           /\ ret'.op # "bjRead" => YieldsOf(ret'.op, r, ret'.arg, left + 1) <= left]_vars

\* a scan has returned the End of an array and left the position after it, at
\* the end of the input, with no error set
C29_Witness ==
  /\ ret.op = "bjRead"
  /\ ret.value.type = END
  /\ r.data = <<"[", "1", "]">>
  /\ r.cur = 3
  /\ r.error = NoError

(***************************************************************************)
(* The scanner with bjLocation and the accessors: the caller scans, and    *)
(* between scans asks for the location and projects the value the last     *)
(* scan returned.  ret.value stays the value handed to the accessor.       *)
(***************************************************************************)
AccLexemes ==
  { <<"1">>, <<"\n">>, <<"[">>, LitTrue, LitFalse, LitNull, <<"\"">>,
    <<"\\", "\"">> }

InitAcc ==
  /\ \E text \in ConcatsOf(AccLexemes, MaxTok) : r = bjReader(text)
  /\ ret = Ret("bjReader", 0, FALSE, NoValue, NoValue, <<>>, NoError, FALSE)
  /\ iters = <<>>
  /\ log = <<>>
  /\ doc = NoDoc
  /\ visited = <<>>

\* what a call of bjLocation or of an accessor on value v left: the result
\* it returned or the message it threw
RetOf(op, v, out) ==
  [op |-> op, arg |-> 0, done |-> FALSE, key |-> NoValue, value |-> v,
   scanned |-> <<>>, scanError |-> r.error, threw |-> out.threw,
   result |-> out.result]

Location ==
  /\ ret' = RetOf("bjLocation", ret.value, Returned(bjLocation(r)))
  /\ UNCHANGED <<r, iters, log, doc, visited>>

GetString ==
  /\ ret.value # NoValue
  /\ ret' = RetOf("bjGetString", ret.value, bjGetString(r, ret.value))
  /\ UNCHANGED <<r, iters, log, doc, visited>>

GetNumber ==
  /\ ret.value # NoValue
  /\ ret' = RetOf("bjGetNumber", ret.value, bjGetNumber(r, ret.value))
  /\ UNCHANGED <<r, iters, log, doc, visited>>

GetBool ==
  /\ ret.value # NoValue
  /\ ret' = RetOf("bjGetBool", ret.value, bjGetBool(r, ret.value))
  /\ UNCHANGED <<r, iters, log, doc, visited>>

IsNull ==
  /\ ret.value # NoValue
  /\ ret' = RetOf("bjIsNull", ret.value, Returned(bjIsNull(ret.value)))
  /\ UNCHANGED <<r, iters, log, doc, visited>>

NextAcc ==
  \/ Read
  \/ Location
  \/ GetString
  \/ GetNumber
  \/ GetBool
  \/ IsNull

SpecAcc == InitAcc /\ [][NextAcc]_vars

\* C14: a String value returned by a scan lies between two quotes, the
\* position after the scan is one past the closing quote, and bjGetString
\* returns the characters of the text from start up to end, one for one,
\* backslashes included.
C14_StringSpan ==
  ret.value.type = BjSTRING =>
    /\ CharAt(r.data, ret.value.start - 1) = "\""
    /\ CharAt(r.data, ret.value.end) = "\""
    /\ r.cur = ret.value.end + 1
    /\ ret.op = "bjGetString" =>
         /\ ~ret.threw
         /\ Len(ret.result) = ret.value.end - ret.value.start
         /\ \A i \in 0 .. Len(ret.result) - 1 :
              CharAt(ret.result, i) = CharAt(r.data, ret.value.start + i)

\* bjGetString has returned the backslash and quote of the string "\""
C14_Witness ==
  /\ ret.op = "bjGetString"
  /\ ret.value.type = BjSTRING
  /\ ~ret.threw
  /\ ret.result = <<"\\", "\"">>

\* C15: bjGetString, bjGetNumber and bjGetBool throw their "Value is not
\* ..." error exactly when the value is not of type STRING, NUMBER and BOOL
\* respectively, with or without an error set on the reader, and no call of
\* an accessor, throwing or not, changes the reader.
C15_TypeMismatch ==
  [][/\ ret'.op = "bjGetString" =>
          /\ ret'.threw <=> ret.value.type # BjSTRING
          /\ ret'.threw => ret'.result = "Value is not a string"
     /\ ret'.op = "bjGetNumber" =>
          /\ ret'.threw <=> ret.value.type # NUMBER
          /\ ret'.threw => ret'.result = "Value is not a number"
     /\ ret'.op = "bjGetBool" =>
          /\ ret'.threw <=> ret.value.type # BOOL
          /\ ret'.threw => ret'.result = "Value is not a boolean"
     /\ ret'.op \in {"bjGetString", "bjGetNumber", "bjGetBool", "bjIsNull"} =>
          r' = r]_vars

\* bjGetNumber has thrown on the Error value of a reader whose error is set
C15_Witness ==
  /\ ret.op = "bjGetNumber"
  /\ ret.threw
  /\ ret.value.type = ERROR
  /\ r.error = "unclosed string"

\* C17: bjLocation returns as line 1 plus the number of newlines before the
\* position and as col 1 plus the number of characters after the last of
\* these newlines (after the start of the text when there is none) and
\* before the position, and leaves the reader as it was.
C17_Location ==
  [][ret'.op = "bjLocation" =>
       LET newlines == {i \in 0 .. r.cur - 1 : CharAt(r.data, i) = "\n"}
           from == IF newlines = {} THEN 0
                   ELSE 1 + CHOOSE i \in newlines : \A j \in newlines : j <= i
       IN  /\ ret'.result.line = 1 + Cardinality(newlines)
           /\ ret'.result.col = 1 + (r.cur - from)
           /\ ~ret'.threw
           /\ r' = r]_vars

\* bjLocation has returned a place on the second line, after its first
\* column
C17_Witness ==
  /\ ret.op = "bjLocation"
  /\ ret.result = [line |-> 2, col |-> 2]

\* C37: bjGetBool on a Bool value throws nothing and returns true when the
\* text of the value's span is true and false when it is false, the only two
\* texts a Bool value has; bjIsNull throws nothing on a value of any type and
\* returns true exactly when the type is NULL.
C37_BoolAndNull ==
  /\ (ret.op = "bjGetBool" /\ ret.value.type = BOOL) =>
       /\ ~ ret.threw
       /\ SpanText(ret.value) \in { <<"t", "r", "u", "e">>, <<"f", "a", "l", "s", "e">> }
       /\ SpanText(ret.value) = <<"t", "r", "u", "e">> => ret.result = TRUE
       /\ SpanText(ret.value) = <<"f", "a", "l", "s", "e">> => ret.result = FALSE
  /\ ret.op = "bjIsNull" =>
       /\ ~ ret.threw
       /\ ret.result = (ret.value.type = NULL)

\* bjGetBool has returned false for the Bool value of the literal false that
\* follows a Null
C37_Witness ==
  /\ ret.op = "bjGetBool"
  /\ ~ ret.threw
  /\ ret.result = FALSE
  /\ ret.value = BjValue(BOOL, 4, 9, 0)
  /\ Substring(r.data, 0, 4) = <<"n", "u", "l", "l">>

(***************************************************************************)
(* Truncated documents: the text of a well-formed document whose root is a *)
(* container, cut before the root's closing bracket at an offset that is   *)
(* not inside a scalar or a key, scanned by a caller that goes on calling  *)
(* bjRead.                                                                 *)
(***************************************************************************)
\* the spans, quotes included, of the scalars and keys of the value t that
\* starts at pos
RECURSIVE LeafSpans(_, _, _)
LeafSpans(t, st, pos) ==
  IF t.kind = "scalar" THEN {<<pos, pos + Len(t.text)>>}
  ELSE UNION { (IF t.kind = "object"
                  THEN {<<ItemPos(t, st, pos, i), ItemPos(t, st, pos, i) + Len(KeyText(i))>>}
                  ELSE {})
                 \cup LeafSpans(t.kids[i], st, ValuePos(t, st, pos, i))
               : i \in 1 .. Len(t.kids) }

\* the offsets at which document d can be cut
Cuts(d) ==
  LET root == Len(d.style.lead)
      spans == LeafSpans(d.tree, d.style, root)
  IN  { p \in root + 1 .. ClosePos(d.tree, d.style, root) :
          \A sp \in spans : ~(sp[1] < p /\ p < sp[2]) }

\* flat containers in the compact layout and nested ones in the spaced layout
TruncDocs ==
  [tree : FlatTrees(MaxNodes - 2), style : {Compact}]
    \cup [tree : {t \in UNION {TreesOfSize(n, NestedScalars) : n \in 1 .. MaxNodes - 1} :
                    t.kind # "scalar"},
          style : {Spaced}]

InitTrunc ==
  /\ \E d \in TruncDocs : \E p \in Cuts(d) :
        /\ doc = d
        /\ r = bjReader(SubSeq(DocText(d), 1, p))
  /\ ret = Ret("bjReader", 0, FALSE, NoValue, NoValue, <<>>, NoError, FALSE)
  /\ iters = <<>>
  /\ log = <<>>
  /\ visited = <<>>

\* the caller scans on: bjRead is called again as long as a call changes
\* anything
SpecTrunc == InitTrunc /\ [][Read]_vars /\ WF_vars(Read)

\* C12: a scan made with no error set when only white space, commas and
\* colons (or nothing) remain sets "unexpected eof" and returns an Error
\* value; and repeated scanning of a truncated document eventually sets
\* "unexpected eof", no other error being set before it.
C12_TruncatedEof ==
  /\ [][(/\ ret'.op = "bjRead"
          /\ r.error = NoError
          /\ TokenStart(r.data, r.cur, r.end) = r.end)
           => (r'.error = "unexpected eof" /\ ret'.value.type = ERROR)]_vars
  /\ [](r.error \in {NoError, "unexpected eof"})
  /\ <>(r.error = "unexpected eof")

\* "unexpected eof" was set with two containers open, after the scan had
\* stepped over the separator the text ends with
C12_Witness ==
  /\ ret.op = "bjRead"
  /\ ret.value = BjValue(ERROR, r.end, r.end, 2)
  /\ r.error = "unexpected eof"
  /\ r.depth = 2
  /\ CharAt(r.data, r.end - 1) \in {" ", ","}

(***************************************************************************)
(* The recursive traversal of a well-formed document: the caller scans the *)
(* root, opens a for-of loop over every container value it is handed       *)
(* before it steps any loop again, and runs every loop until its iterator  *)
(* reports done.  A scalar value it is handed is appended to visited.      *)
(***************************************************************************)
InitTraverse ==
  /\ doc \in Docs
  /\ r = bjReader(DocText(doc))
  /\ ret = Ret("bjReader", 0, FALSE, NoValue, NoValue, <<>>, NoError, FALSE)
  /\ iters = <<>>
  /\ log = <<>>
  /\ visited = <<>>

\* the caller was just handed a container value
HandedContainer ==
  /\ ret.op \in {"bjRead", "bjIterArray", "bjIterObject"}
  /\ ret.value.type \in {ARRAY, OBJECT}

\* visited after the call that left ret'
Visit ==
  visited' = IF ret'.value.type \in {NUMBER, BjSTRING, BOOL, NULL}
               THEN Append(visited, ret'.value)
               ELSE visited

\* const root = bjRead(reader)
TraverseRoot ==
  /\ ret.op = "bjReader"
  /\ LET o == bjRead(r)
     IN  /\ r' = o.r
         /\ ret' = Ret("bjRead", 0, FALSE, NoValue, o.val, <<o.val>>, o.r.error, FALSE)
  /\ Visit
  /\ UNCHANGED <<iters, log, doc>>

\* the next step of the innermost loop that has not ended: a loop whose
\* iterator reported done is left, and the loop around it goes on
TraverseStep ==
  /\ iters # <<>>
  /\ ~HandedContainer
  /\ LET top == Len(iters)
         i == IF log[top].done THEN top - 1 ELSE top
     IN  /\ i >= 1
         /\ Next_(i)
  /\ Visit

NextTraverse ==
  \/ TraverseRoot
  \/ OpenLoop
  \/ TraverseStep

SpecTraverse == InitTraverse /\ [][NextTraverse]_vars

\* the traversal has ended: the root was no container, or the loop over the
\* root has ended
TraversalEnded ==
  \/ ret.op = "bjRead" /\ ret.value.type \notin {ARRAY, OBJECT}
  \/ Len(iters) = 1 /\ log[1].done

\* the tokens of the scalars of the value t that starts at pos below d open
\* containers, in source order; those of the children of t from the i-th on
RECURSIVE ScalarTokens(_, _, _, _), ScalarTokensFrom(_, _, _, _, _)
ScalarTokens(t, st, pos, d) ==
  IF t.kind = "scalar" THEN <<TokenOf(t, st, pos, d)>>
  ELSE ScalarTokensFrom(t, st, pos, d, 1)

ScalarTokensFrom(t, st, pos, d, i) ==
  IF i > Len(t.kids) THEN <<>>
  ELSE ScalarTokens(t.kids[i], st, ValuePos(t, st, pos, i), d + 1)
         \o ScalarTokensFrom(t, st, pos, d, i + 1)

\* C20: during the recursive traversal of a well-formed document the scalar
\* values handed to the caller are the first scalars of the document in
\* source order, each once; when the traversal has ended they are all of
\* them, depth is 0 and no error is set.
C20_FullTraversal ==
  LET all == ScalarTokens(doc.tree, doc.style, Len(doc.style.lead), 0)
  IN  /\ IsPrefix(visited, all)
      /\ TraversalEnded =>
           /\ visited = all
           /\ r.depth = 0
           /\ r.error = NoError

\* the traversal of a document with a scalar inside a nested container and
\* a scalar after that container has ended
C20_Witness ==
  /\ Len(iters) = 1
  /\ log[1].done
  /\ Len(visited) >= 2
  /\ visited[1].depth = 2
  /\ visited[Len(visited)].depth = 1

(***************************************************************************)
(* Two iterators of one container.  The caller scans a well-formed         *)
(* document up to the opening of a container, makes two iterator objects   *)
(* of that value on the one reader, and steps them in any order until one  *)
(* of them reports done.  log[i] keeps what handle i yielded and visited   *)
(* what the two yielded, in the order of the steps.                        *)
(***************************************************************************)
InitTwo ==
  /\ doc \in Docs
  /\ r = bjReader(DocText(doc))
  /\ ret = Ret("bjReader", 0, FALSE, NoValue, NoValue, <<>>, NoError, FALSE)
  /\ iters = <<>>
  /\ log = <<>>
  /\ visited = <<>>

\* bjRead(r) by the caller, before it makes the iterators
ReadTwo == iters = <<>> /\ Read

\* two iterator objects are made of the container value just returned, on
\* the reader r, with the class of the value's type
OpenTwo ==
  /\ iters = <<>>
  /\ ret.op = "bjRead"
  /\ ret.value.type \in {ARRAY, OBJECT}
  /\ LET kind == IF ret.value.type = ARRAY THEN "array" ELSE "object"
         h == [kind |-> kind, container |-> ret.value]
     IN  /\ iters' = <<h, h>>
         /\ ret' = Ret(IF kind = "array" THEN "new BjArrayIterator"
                                         ELSE "new BjObjectIterator",
                       0, FALSE, NoValue, ret.value, <<>>, r.error, FALSE)
  /\ log' = <<NewLog, NewLog>>
  /\ UNCHANGED <<r, doc, visited>>

\* one step of the generator of handle i, started on the position where the
\* span of its container ends when the handle has not stepped before
StepHandle_restart(i) ==
  LET it == iters[i]
      r0 == IF log[i].items = <<>>
              THEN [r EXCEPT !.cur = it.container.end, !.depth = it.container.depth]
              ELSE r
      res == IF it.kind = "array" THEN bjIterArray(r0, it.container)
                                 ELSE bjIterObject(r0, it.container)
      op == IF it.kind = "array" THEN "bjIterArray" ELSE "bjIterObject"
      item == [key |-> res.key, value |-> res.value]
  IN  /\ \A j \in 1 .. Len(log) : ~ log[j].done
      /\ r' = res.r
      /\ ret' = Ret(op, it.container.depth, res.done, res.key, res.value,
                    res.scanned, res.scanError, FALSE)
      /\ log' = [log EXCEPT ![i].items = IF res.done THEN @ ELSE Append(@, item),
                            ![i].done = res.done]
      /\ visited' = IF res.done THEN visited ELSE Append(visited, item)
      /\ UNCHANGED <<iters, doc>>

\* one step of the generator of handle i, made while neither handle has
\* reported done
StepHandle(i) ==
  LET it == iters[i]
      res == IF it.kind = "array" THEN bjIterArray(r, it.container)
                                 ELSE bjIterObject(r, it.container)
      op == IF it.kind = "array" THEN "bjIterArray" ELSE "bjIterObject"
      item == [key |-> res.key, value |-> res.value]
  IN  /\ \A j \in 1 .. Len(log) : ~ log[j].done
      /\ r' = res.r
      /\ ret' = Ret(op, it.container.depth, res.done, res.key, res.value,
                    res.scanned, res.scanError, FALSE)
      /\ log' = [log EXCEPT ![i].items = IF res.done THEN @ ELSE Append(@, item),
                            ![i].done = res.done]
      /\ visited' = IF res.done THEN visited ELSE Append(visited, item)
      /\ UNCHANGED <<iters, doc>>

NextTwo ==
  \/ ReadTwo
  \/ OpenTwo
  \/ \E i \in 1 .. Len(iters) : StepHandle(i)

SpecTwo == InitTwo /\ [][NextTwo]_vars

\* C30: with two iterators of the same container value of a well-formed
\* document on the same reader, stepped in any order, what the two have
\* yielded, in the order of the steps, is the first children of the container
\* in source order, each once, every yield being that of one handle; and once
\* a step has reported done it is all the children, with no error set.
C30_TwoHandles ==
  iters # <<>> =>
    /\ IsNode(iters[1].container)
    /\ iters[2] = iters[1]
    /\ LET kids == ChildrenOf(1)
       IN  /\ IsPrefix(visited, kids)
           /\ Len(log[1].items) + Len(log[2].items) = Len(visited)
           /\ \A i \in 1 .. 2 : \A j \in 1 .. Len(log[i].items) :
                \E k \in 1 .. Len(visited) : visited[k] = log[i].items[j]
           /\ (log[1].done \/ log[2].done) =>
                /\ visited = kids
                /\ r.error = NoError

\* the first handle yielded a nested container that has a child, the second
\* one yielded the sibling after it, and the first one reported done
C30_Witness ==
  /\ Len(iters) = 2
  /\ Len(visited) = 2
  /\ log[1].items = <<visited[1]>>
  /\ log[2].items = <<visited[2]>>
  /\ log[1].done
  /\ visited[1].value.type \in {ARRAY, OBJECT}
  /\ NodeOf(visited[1].value).t.kids # <<>>

(***************************************************************************)
(* Iterator steps on free-form input: what a step made after a step that   *)
(* reported done does, where a done step leaves the depth, and the depth   *)
(* of what a step yields.                                                  *)
(***************************************************************************)

\* C31 as stated: a step of bjIterArray or bjIterObject on a container value
\* made after a step on a value of that depth reported done reports done too
\* and leaves the reader's position, depth and error as they were.
C31_ExhaustedStays ==
  [][(/\ ret.op \in {"bjIterArray", "bjIterObject"}
      /\ ret.done
      /\ ret'.op = ret.op
      /\ ret'.arg = ret.arg)
       => /\ ret'.done
          /\ r'.cur = r.cur
          /\ r'.depth = r.depth
          /\ r'.error = r.error]_vars

\* C32: after a step of bjIterArray or bjIterObject on a container value of
\* depth d that reported done with no error set, the reader's depth is d - 1:
\* the last value the step scanned is an End scanned at depth d.
C32_DepthAfterDone ==
  (ret.op \in {"bjIterArray", "bjIterObject"} /\ ret.done /\ r.error = NoError) =>
    /\ r.depth = ret.arg - 1
    /\ ret.scanned[Len(ret.scanned)].type = END
    /\ ret.scanned[Len(ret.scanned)].depth = ret.arg

\* the loop over the object of {}1 has reported done at the '}', with no error
\* set and the Number still ahead
C32_Witness ==
  /\ ret.op = "bjIterObject"
  /\ ret.done
  /\ r.error = NoError
  /\ ret.arg = 1
  /\ r.depth = 0
  /\ r.data = <<"{", "}", "1">>
  /\ r.cur = 2

\* the depth a value scanned at reader depth d carries
DepthAt(v, d) == IF v.type \in {ARRAY, OBJECT} THEN d + 1 ELSE d

\* C33 as stated: every element, key and value a step on a container value of
\* depth d yields has depth d when it is a scalar and d + 1 when it opens a
\* container, and is neither an End nor an Error value.
C33_YieldedDepth ==
  (ret.op \in {"bjIterArray", "bjIterObject"} /\ ~ ret.done) =>
    /\ ret.value.type \notin {END, ERROR}
    /\ ret.value.depth = DepthAt(ret.value, ret.arg)
    /\ ret.op = "bjIterObject" =>
         /\ ret.key.type \notin {END, ERROR}
         /\ ret.key.depth = DepthAt(ret.key, ret.arg)

\* C33: every element and key a step on a container value of depth d yields
\* has depth d when it is a scalar and d + 1 when it opens a container; the
\* value of a pair has these depths when the key is a scalar, and one more
\* when the key opens a container; nothing yielded is an End or Error value.
C33_YieldedDepthAfterKey ==
  (ret.op \in {"bjIterArray", "bjIterObject"} /\ ~ ret.done) =>
    /\ ret.value.type \notin {END, ERROR}
    /\ ret.op = "bjIterArray" => ret.value.depth = DepthAt(ret.value, ret.arg)
    /\ ret.op = "bjIterObject" =>
         /\ ret.key.type \notin {END, ERROR}
         /\ ret.key.depth = DepthAt(ret.key, ret.arg)
         /\ ret.value.depth = DepthAt(ret.value, DepthAt(ret.key, ret.arg))

\* a step on an object of depth 1 has yielded the opening of an array, of
\* depth 2, as the key and a Null of depth 2 as the value
C33_Witness ==
  /\ ret.op = "bjIterObject"
  /\ ~ ret.done
  /\ ret.arg = 1
  /\ ret.key = BjValue(ARRAY, 1, 2, 2)
  /\ ret.value = BjValue(NULL, 2, 6, 2)

\* C35: in every state the position is at least 0 and at most end, and end is
\* the length of the text the reader was made of; no scan and no iterator
\* step moves the position back or changes end or the text.
C35_PositionInBounds ==
  /\ [](0 <= r.cur /\ r.cur <= r.end /\ r.end = Len(r.data))
  /\ [][r'.cur >= r.cur /\ r'.end = r.end /\ r'.data = r.data]_vars

\* after the literal null, a scan of a string that ends with a backslash has
\* set "unclosed string" and left the position at the end of the text
C35_Witness ==
  /\ ret.op = "bjRead"
  /\ r.error = "unclosed string"
  /\ r.data = <<"n", "u", "l", "l", "\"", "\\">>
  /\ r.cur = 6
  /\ r.end = 6

(***************************************************************************)
(* The depth and the brackets scanned.  The caller scans and makes iterator *)
(* steps on free-form texts; visited keeps the container-open and End      *)
(* values every scan returned so far, those of the scans made inside       *)
(* bjDiscardUntil and the iterator steps with them.                        *)
(***************************************************************************)
DepthLexemes ==
  { <<"[">>, <<"]">>, <<"{">>, <<"}">>, <<"1">>, <<"\"">> }

\* the values the scans of the loop of bjDiscardUntil(r, depth) return, val
\* being the last value read
RECURSIVE DiscardScans(_, _, _)
DiscardScans(rd, depth, val) ==
  IF rd.depth # depth /\ val.type # ERROR
    THEN LET o == bjRead(rd) IN <<o.val>> \o DiscardScans(o.r, depth, o.val)
    ELSE <<>>

\* the container-open and End values among toks
RECURSIVE Brackets(_)
Brackets(toks) ==
  IF toks = <<>> THEN <<>>
  ELSE (IF Head(toks).type \in {ARRAY, OBJECT, END} THEN <<Head(toks)>> ELSE <<>>)
         \o Brackets(Tail(toks))

InitDepth ==
  /\ \E text \in ConcatsOf(DepthLexemes, MaxTok) : r = bjReader(text)
  /\ ret = Ret("bjReader", 0, FALSE, NoValue, NoValue, <<>>, NoError, FALSE)
  /\ iters = <<>>
  /\ log = <<>>
  /\ doc = NoDoc
  /\ visited = <<>>

\* bjRead(r), called by the caller itself
CountedRead ==
  LET o == bjRead(r)
  IN  /\ r' = o.r
      /\ ret' = Ret("bjRead", 0, FALSE, NoValue, o.val, <<o.val>>, o.r.error, FALSE)
      /\ visited' = visited \o Brackets(<<o.val>>)
      /\ UNCHANGED <<iters, log, doc>>

\* bjIterArray(r, arr) on a container value of depth d
CountedIterArray ==
  \E d \in 0 .. MaxArgDepth :
    LET res == bjIterArray(r, BjValue(ARRAY, 0, 1, d))
    IN  /\ r' = res.r
        /\ ret' = Ret("bjIterArray", d, res.done, res.key, res.value, res.scanned,
                      res.scanError, FALSE)
        /\ visited' = visited
                        \o Brackets(DiscardScans(r, d, BjValue(NULL, 0, 0, 0)) \o res.scanned)
        /\ UNCHANGED <<iters, log, doc>>

\* bjIterObject(r, obj) on a container value of depth d
CountedIterObject ==
  \E d \in 0 .. MaxArgDepth :
    LET res == bjIterObject(r, BjValue(OBJECT, 0, 1, d))
    IN  /\ r' = res.r
        /\ ret' = Ret("bjIterObject", d, res.done, res.key, res.value, res.scanned,
                      res.scanError, FALSE)
        /\ visited' = visited
                        \o Brackets(DiscardScans(r, d, BjValue(NULL, 0, 0, 0)) \o res.scanned)
        /\ UNCHANGED <<iters, log, doc>>

NextDepth ==
  \/ CountedRead
  \/ CountedIterArray
  \/ CountedIterObject

SpecDepth == InitDepth /\ [][NextDepth]_vars

\* how many of the values toks have one of the types
CountOf(toks, types) == Cardinality({i \in 1 .. Len(toks) : toks[i].type \in types})

\* C34: while no error is set, the reader's depth is the number of
\* container-open values minus the number of End values that the scans made so
\* far returned, the scans inside bjDiscardUntil and the iterator steps
\* counted; and a scan that returns a Number, String, Bool or Null value
\* leaves the depth as it was.
C34_DepthIsOpensLessEnds ==
  /\ [](r.error = NoError =>
          r.depth = CountOf(visited, {ARRAY, OBJECT}) - CountOf(visited, {END}))
  /\ [][(ret'.op = "bjRead" /\ ret'.value.type \in {NUMBER, BjSTRING, BOOL, NULL})
          => r'.depth = r.depth]_vars

\* a step on a container value of depth 0, made at depth 1, has discarded a
\* ']' and yielded the Number after it: one opening and one End were returned
C34_Witness ==
  /\ ret.op = "bjIterArray"
  /\ ~ ret.done
  /\ ret.value.type = NUMBER
  /\ Len(ret.scanned) = 1
  /\ Len(visited) = 2
  /\ visited[2].type = END
  /\ r.depth = 0
  /\ r.error = NoError

====
